---- MODULE Spec2Model ----
(***************************************************************************)
(* DOMRefCell<T> (components/script/dom/bindings/cell.rs): a RefCell<T>    *)
(* whose checked borrows are gated by a debug-only task-state assertion,   *)
(* plus three unsafe accessors that read the value without touching the    *)
(* RefCell borrow flag, and a JSTraceable bridge.                          *)
(*                                                                         *)
(* The borrow flag is the one of std::cell::RefCell: UNUSED, WRITING, or   *)
(* the number of outstanding Ref guards.  Live guards are counted          *)
(* separately from the flag (refs, refmuts), so that "the flag agrees      *)
(* with the guards" is something to be checked, not assumed.               *)
(*                                                                         *)
(* written is the value last stored by new or through a RefMut; value is   *)
(* what the cell holds.                                                    *)
(*                                                                         *)
(* A panic ends the call that raised it and leaves the cell as it was:     *)
(* RefCell has no poisoning, guards still on the stack are dropped by      *)
(* the drop actions.                                                       *)
(***************************************************************************)
EXTENDS Integers, FiniteSets, Sequences, TLC

\* ---- bounds ----
MaxShared == 3
MaxVal == 1

\* ---- std::cell::RefCell borrow flag ----
UNUSED == 0
WRITING == -1

Values == 0..MaxVal
NoVal == -1

\* ---- util::task_state flags ----
SCRIPT == "SCRIPT"
LAYOUT == "LAYOUT"
RENDER == "RENDER"
IN_GC == "IN_GC"

\* the task states a thread can be in: one task type (or none), and IN_GC
\* only on the script task.  RENDER is the paint task: the cell has no
\* accessor for it, so it is one more task that is neither script nor layout.
TaskStates == {{SCRIPT}, {SCRIPT, IN_GC}, {LAYOUT}, {RENDER}, {}}

VARIABLES flag, value, written, refs, refmuts, debug, op, prev_op, caller, outcome,
          seen

vars == <<flag, value, written, refs, refmuts, debug, op, prev_op, caller, outcome,
          seen>>

\* TaskState::contains
contains(ts, flags) == flags \subseteq ts

is_script(ts) == contains(ts, {SCRIPT})

is_layout(ts) == contains(ts, {LAYOUT})

\* an assertion that is kept in every build
checked_always(cond) == cond

\* debug_assert!(cond): checked in a debug build, compiled out otherwise
debug_assert(cond) == debug => cond

\* ---- RefCell<T> ----
RefCell_try_borrow(b) ==
    IF b = WRITING THEN [some |-> FALSE, flag |-> b]
                   ELSE [some |-> TRUE, flag |-> b + 1]

RefCell_try_borrow_mut_reentrant(b) ==
    IF b > UNUSED THEN [some |-> FALSE, flag |-> b]
                  ELSE [some |-> TRUE, flag |-> WRITING]

RefCell_try_borrow_mut(b) ==
    IF b = UNUSED THEN [some |-> TRUE, flag |-> WRITING]
                   ELSE [some |-> FALSE, flag |-> b]

\* Drop for Ref: one reader less
Ref_drop_reset(b) == UNUSED

Ref_drop(b) == b - 1

\* Drop for RefMut
RefMut_drop_keep(b) == b

RefMut_drop(b) == UNUSED

TypeOK ==
    /\ flag \in (WRITING..(MaxShared + 1))
    /\ value \in Values
    /\ written \in Values
    /\ refs \in 0..(MaxShared + 1)
    /\ refmuts \in 0..2
    /\ debug \in BOOLEAN
    /\ caller \in TaskStates
    /\ seen \in Values \cup {NoVal}

\* DOMRefCell::new(value): RefCell::new, flag UNUSED, no guard
Init ==
    /\ flag = UNUSED
    /\ value \in Values
    /\ written = value
    /\ refs = 0
    /\ refmuts = 0
    /\ debug \in BOOLEAN
    /\ op = "new"
    /\ prev_op = "none"
    /\ caller = {SCRIPT}
    /\ outcome = "cell"
    /\ seen = NoVal

\* ---- the checked API ----
\* try_borrow asserting the script task outside a collection
try_borrow_result_no_gc(ts) ==
    IF ~debug_assert(is_script(ts) /\ ~contains(ts, {IN_GC}))
    THEN [kind |-> "RoleViolation", flag |-> flag]
    ELSE LET r == RefCell_try_borrow(flag)
         IN [kind |-> IF r.some THEN "Some" ELSE "None", flag |-> r.flag]

\* try_borrow going through the exclusive check of the RefCell
try_borrow_result_exclusive_check(ts) ==
    IF ~debug_assert(is_script(ts))
    THEN [kind |-> "RoleViolation", flag |-> flag]
    ELSE IF flag = UNUSED THEN [kind |-> "Some", flag |-> flag + 1]
                          ELSE [kind |-> "None", flag |-> flag]

\* result of self.try_borrow() called in task state ts
try_borrow_result(ts) ==
    IF ~debug_assert(is_script(ts))
    THEN [kind |-> "RoleViolation", flag |-> flag]
    ELSE LET r == RefCell_try_borrow(flag)
         IN [kind |-> IF r.some THEN "Some" ELSE "None", flag |-> r.flag]

\* try_borrow_mut that marks the cell as written before it looks at the flag
try_borrow_mut_result_poison(ts) ==
    IF ~debug_assert(is_script(ts))
    THEN [kind |-> "RoleViolation", flag |-> flag]
    ELSE IF flag = UNUSED THEN [kind |-> "Some", flag |-> WRITING]
                          ELSE [kind |-> "None", flag |-> WRITING]

\* try_borrow_mut going through the shared check of the RefCell
try_borrow_mut_result_shared_check(ts) ==
    IF ~debug_assert(is_script(ts))
    THEN [kind |-> "RoleViolation", flag |-> flag]
    ELSE IF flag = WRITING THEN [kind |-> "None", flag |-> flag]
                           ELSE [kind |-> "Some", flag |-> WRITING]

\* result of self.try_borrow_mut() called in task state ts
try_borrow_mut_result(ts) ==
    IF ~debug_assert(is_script(ts))
    THEN [kind |-> "RoleViolation", flag |-> flag]
    ELSE LET r == RefCell_try_borrow_mut(flag)
         IN [kind |-> IF r.some THEN "Some" ELSE "None", flag |-> r.flag]

try_borrow ==
    \E ts \in TaskStates :
        LET r == try_borrow_result(ts) IN
        /\ refs < MaxShared
        /\ op' = "try_borrow" /\ prev_op' = op /\ caller' = ts
        /\ flag' = r.flag
        /\ outcome' = r.kind
        /\ refs' = IF r.kind = "Some" THEN refs + 1 ELSE refs
        /\ seen' = IF r.kind = "Some" THEN value ELSE NoVal
        /\ UNCHANGED <<value, refmuts, debug, written>>

try_borrow_mut ==
    \E ts \in TaskStates :
        LET r == try_borrow_mut_result(ts) IN
        /\ op' = "try_borrow_mut" /\ prev_op' = op /\ caller' = ts
        /\ flag' = r.flag
        /\ outcome' = r.kind
        /\ refmuts' = IF r.kind = "Some" THEN refmuts + 1 ELSE refmuts
        /\ seen' = IF r.kind = "Some" THEN value ELSE NoVal
        /\ UNCHANGED <<value, refs, debug, written>>

\* match self.try_borrow() { Some(ptr) => ptr, None => panic!(..) }
borrow_result(ts) ==
    LET r == try_borrow_result(ts)
    IN IF r.kind = "None" THEN [kind |-> "BorrowConflict", flag |-> r.flag]
       ELSE IF r.kind = "Some" THEN [kind |-> "Ref", flag |-> r.flag]
       ELSE r

\* borrow_mut matching on self.try_borrow()
borrow_mut_result_via_try_borrow(ts) ==
    LET r == try_borrow_result(ts)
    IN IF r.kind = "None" THEN [kind |-> "BorrowConflict", flag |-> r.flag]
       ELSE IF r.kind = "Some" THEN [kind |-> "RefMut", flag |-> WRITING]
       ELSE r

borrow_mut_result(ts) ==
    LET r == try_borrow_mut_result(ts)
    IN IF r.kind = "None" THEN [kind |-> "BorrowConflict", flag |-> r.flag]
       ELSE IF r.kind = "Some" THEN [kind |-> "RefMut", flag |-> r.flag]
       ELSE r

borrow ==
    \E ts \in TaskStates :
        LET r == borrow_result(ts) IN
        /\ refs < MaxShared
        /\ op' = "borrow" /\ prev_op' = op /\ caller' = ts
        /\ flag' = r.flag
        /\ outcome' = r.kind
        /\ refs' = IF r.kind = "Ref" THEN refs + 1 ELSE refs
        /\ seen' = IF r.kind = "Ref" THEN value ELSE NoVal
        /\ UNCHANGED <<value, refmuts, debug, written>>

borrow_mut ==
    \E ts \in TaskStates :
        LET r == borrow_mut_result(ts) IN
        /\ op' = "borrow_mut" /\ prev_op' = op /\ caller' = ts
        /\ flag' = r.flag
        /\ outcome' = r.kind
        /\ refmuts' = IF r.kind = "RefMut" THEN refmuts + 1 ELSE refmuts
        /\ seen' = IF r.kind = "RefMut" THEN value ELSE NoVal
        /\ UNCHANGED <<value, refs, debug, written>>

\* self.value.try_borrow().is_some(): the temporary Option<Ref> is dropped
\* at the end of the statement
is_mutably_borrowed_leak ==
    \E ts \in TaskStates :
        LET r == RefCell_try_borrow(flag) IN
        /\ op' = "is_mutably_borrowed" /\ prev_op' = op /\ caller' = ts
        /\ outcome' = IF r.some THEN "true" ELSE "false"
        /\ flag' = r.flag
        /\ seen' = NoVal
        /\ UNCHANGED <<value, refs, refmuts, debug, written>>

is_mutably_borrowed ==
    \E ts \in TaskStates :
        LET r == RefCell_try_borrow(flag) IN
        /\ op' = "is_mutably_borrowed" /\ prev_op' = op /\ caller' = ts
        /\ outcome' = IF r.some THEN "true" ELSE "false"
        /\ flag' = IF r.some THEN Ref_drop(r.flag) ELSE r.flag
        /\ seen' = NoVal
        /\ UNCHANGED <<value, refs, refmuts, debug, written>>

\* ---- guards ----
\* a Ref guard goes out of scope
drop_Ref ==
    /\ refs > 0
    /\ op' = "drop_Ref" /\ prev_op' = op
    /\ flag' = Ref_drop(flag)
    /\ refs' = refs - 1
    /\ outcome' = "unit"
    /\ seen' = NoVal
    /\ UNCHANGED <<value, refmuts, debug, written, caller>>

\* a RefMut guard goes out of scope
drop_RefMut ==
    /\ refmuts > 0
    /\ op' = "drop_RefMut" /\ prev_op' = op
    /\ flag' = RefMut_drop(flag)
    /\ refmuts' = refmuts - 1
    /\ outcome' = "unit"
    /\ seen' = NoVal
    /\ UNCHANGED <<value, refs, debug, written, caller>>

\* a RefMut that points at a copy of the contents: the store is lost
write_RefMut_copy ==
    \E v \in Values :
        /\ refmuts > 0
        /\ op' = "write_RefMut" /\ prev_op' = op
        /\ written' = v
        /\ outcome' = "unit"
        /\ seen' = NoVal
        /\ UNCHANGED <<flag, value, refs, refmuts, debug, caller>>

\* *guard = v through a live RefMut
write_RefMut ==
    \E v \in Values :
        /\ refmuts > 0
        /\ op' = "write_RefMut" /\ prev_op' = op
        /\ value' = v
        /\ written' = v
        /\ outcome' = "unit"
        /\ seen' = NoVal
        /\ UNCHANGED <<flag, refs, refmuts, debug, caller>>

\* *guard through a live Ref
read_Ref ==
    /\ refs > 0
    /\ op' = "read_Ref" /\ prev_op' = op
    /\ outcome' = "value"
    /\ seen' = value
    /\ UNCHANGED <<flag, value, refs, refmuts, debug, written, caller>>

\* ---- the unsafe accessors ----
\* an accessor that registers a reader in the borrow flag
bypass_counting(name, ts, ok, kind) ==
    /\ op' = name /\ prev_op' = op /\ caller' = ts
    /\ outcome' = IF debug_assert(ok) THEN kind ELSE "RoleViolation"
    /\ seen' = IF debug_assert(ok) THEN value ELSE NoVal
    /\ flag' = IF debug_assert(ok) /\ flag # WRITING THEN flag + 1 ELSE flag
    /\ UNCHANGED <<value, refs, refmuts, debug, written>>

\* an accessor that respects the borrow flag
bypass_checked(name, ts, ok, kind) ==
    /\ op' = name /\ prev_op' = op /\ caller' = ts
    /\ outcome' = IF ~debug_assert(ok) THEN "RoleViolation"
                  ELSE IF flag = UNUSED THEN kind ELSE "BorrowConflict"
    /\ seen' = IF debug_assert(ok) /\ flag = UNUSED THEN value ELSE NoVal
    /\ UNCHANGED <<flag, value, refs, refmuts, debug, written>>

\* debug_assert!(<role>); &*self.value.as_unsafe_cell().get()
bypass(name, ts, ok, kind) ==
    /\ op' = name /\ prev_op' = op /\ caller' = ts
    /\ outcome' = IF debug_assert(ok) THEN kind ELSE "RoleViolation"
    /\ seen' = IF debug_assert(ok) THEN value ELSE NoVal
    /\ UNCHANGED <<flag, value, refs, refmuts, debug, written>>

borrow_for_layout ==
    \E ts \in TaskStates :
        bypass("borrow_for_layout", ts, is_layout(ts), "&T")

\* the trace read asserting the script task only
borrow_for_gc_trace_script_only ==
    \E ts \in TaskStates :
        bypass("borrow_for_gc_trace", ts, contains(ts, {SCRIPT}), "&T")

borrow_for_gc_trace ==
    \E ts \in TaskStates :
        bypass("borrow_for_gc_trace", ts, contains(ts, {SCRIPT, IN_GC}), "&T")

borrow_for_script_deallocation ==
    \E ts \in TaskStates :
        bypass("borrow_for_script_deallocation", ts, contains(ts, {SCRIPT}), "&mut T")

\* ---- JSTraceable ----
\* trace reading the contents through borrow_for_gc_trace
trace_via_gc_bypass ==
    \E ts \in TaskStates :
        /\ op' = "trace" /\ prev_op' = op /\ caller' = ts
        /\ outcome' = IF debug_assert(contains(ts, {SCRIPT, IN_GC}))
                      THEN "traced" ELSE "RoleViolation"
        /\ seen' = IF debug_assert(contains(ts, {SCRIPT, IN_GC}))
                   THEN value ELSE NoVal
        /\ UNCHANGED <<flag, value, refs, refmuts, debug, written>>

\* trace keeping the Ref it took
trace_leak ==
    \E ts \in TaskStates :
        LET r == borrow_result(ts) IN
        /\ op' = "trace" /\ prev_op' = op /\ caller' = ts
        /\ outcome' = IF r.kind = "Ref" THEN "traced" ELSE r.kind
        /\ flag' = r.flag
        /\ seen' = IF r.kind = "Ref" THEN value ELSE NoVal
        /\ UNCHANGED <<value, refs, refmuts, debug, written>>

\* (*self).borrow().trace(trc): the temporary Ref is dropped when the
\* statement ends
trace ==
    \E ts \in TaskStates :
        LET r == borrow_result(ts) IN
        /\ op' = "trace" /\ prev_op' = op /\ caller' = ts
        /\ outcome' = IF r.kind = "Ref" THEN "traced" ELSE r.kind
        /\ flag' = IF r.kind = "Ref" THEN Ref_drop(r.flag) ELSE r.flag
        /\ seen' = IF r.kind = "Ref" THEN value ELSE NoVal
        /\ UNCHANGED <<value, refs, refmuts, debug, written>>

Next ==
    \/ try_borrow
    \/ try_borrow_mut
    \/ borrow
    \/ borrow_mut
    \/ is_mutably_borrowed
    \/ drop_Ref
    \/ drop_RefMut
    \/ write_RefMut
    \/ read_Ref
    \/ borrow_for_layout
    \/ borrow_for_gc_trace
    \/ borrow_for_script_deallocation
    \/ trace

Spec == Init /\ [][Next]_vars

\* ---- properties ----
BypassOps == {"borrow_for_layout", "borrow_for_gc_trace",
              "borrow_for_script_deallocation"}

\* C1: the live guards are either at most one exclusive guard and no shared
\* guard, or shared guards only; never both kinds, never two exclusive ones.
C1_ExclusiveXorShared ==
    \/ (refmuts <= 1 /\ refs = 0)
    \/ (refmuts = 0 /\ refs >= 0)

\* an exclusive guard is live and a shared borrow has just been turned down
C1_Witness ==
    /\ refmuts = 1 /\ refs = 0
    /\ op = "try_borrow" /\ outcome = "None"

\* C2: is_mutably_borrowed() returns true iff an exclusive guard is live
\* (the flag is WRITING), and false when the state is Free or Shared(n).
C2_TrueIffExclusive ==
    op = "is_mutably_borrowed" =>
        (outcome = "true" <=> flag = WRITING)

\* C3: on the script role try_borrow returns None iff an exclusive guard is
\* live; otherwise it returns a guard and the flag goes Free -> 1 or n -> n+1.
C3_TryBorrow ==
    [][(op' = "try_borrow" /\ is_script(caller')) =>
          /\ (outcome' = "None") <=> (refmuts > 0)
          /\ (outcome' = "None") =>
                (flag' = flag /\ refs' = refs /\ refmuts' = refmuts)
          /\ (outcome' # "None") =>
                /\ outcome' = "Some"
                /\ flag' = (IF flag = UNUSED THEN 1 ELSE flag + 1)
                /\ refs' = refs + 1 /\ refmuts' = refmuts]_vars

\* a second shared guard was handed out on the script role
C3_Witness ==
    /\ op = "try_borrow" /\ is_script(caller)
    /\ outcome = "Some" /\ flag = 2 /\ refs = 2

\* C4: on the script role try_borrow_mut returns None iff any guard is live;
\* otherwise (Free) it returns an exclusive guard and the flag goes to WRITING.
C4_TryBorrowMut ==
    [][(op' = "try_borrow_mut" /\ is_script(caller')) =>
          /\ (outcome' = "None") <=> (refs > 0 \/ refmuts > 0)
          /\ (outcome' = "None") =>
                (flag' = flag /\ refs' = refs /\ refmuts' = refmuts)
          /\ (outcome' # "None") =>
                /\ outcome' = "Some"
                /\ flag = UNUSED /\ flag' = WRITING
                /\ refmuts' = 1 /\ refs' = refs]_vars

\* an exclusive borrow was turned down because shared guards are live
C4_Witness ==
    /\ op = "try_borrow_mut" /\ is_script(caller)
    /\ outcome = "None" /\ refs = 2 /\ refmuts = 0

\* C5: borrow panics with a conflict exactly when try_borrow would return
\* None, borrow_mut exactly when try_borrow_mut would; otherwise they return
\* a guard and make the transition of their try_ counterpart.
C5_PanicIffTryEmpty ==
    [][/\ (op' = "borrow") =>
            LET t == try_borrow_result(caller') IN
            /\ (outcome' = "BorrowConflict") <=> (t.kind = "None")
            /\ (t.kind = "Some") => (outcome' = "Ref" /\ refs' = refs + 1)
            /\ (outcome' = "Ref") => (t.kind = "Some")
            /\ flag' = t.flag /\ refmuts' = refmuts
            /\ (outcome' # "Ref") => (refs' = refs)
       /\ (op' = "borrow_mut") =>
            LET t == try_borrow_mut_result(caller') IN
            /\ (outcome' = "BorrowConflict") <=> (t.kind = "None")
            /\ (t.kind = "Some") => (outcome' = "RefMut" /\ refmuts' = refmuts + 1)
            /\ (outcome' = "RefMut") => (t.kind = "Some")
            /\ flag' = t.flag /\ refs' = refs
            /\ (outcome' # "RefMut") => (refmuts' = refmuts)]_vars

\* borrow_mut panicked while two shared guards were live
C5_Witness ==
    /\ op = "borrow_mut" /\ outcome = "BorrowConflict"
    /\ refs = 2 /\ flag = 2

\* C6: the three unsafe accessors leave the borrow flag and the live guards
\* exactly as they were, in every tracker state.
C6_BypassFrame ==
    [][(op' \in BypassOps) =>
          (flag' = flag /\ refs' = refs /\ refmuts' = refmuts)]_vars

\* the layout read was served while two shared guards were live
C6_Witness ==
    /\ op = "borrow_for_layout" /\ outcome = "&T"
    /\ flag = 2 /\ refs = 2

\* C7: the count in Shared(n) is the number of live shared guards, and the
\* state is Free when no guard is live; a release takes the count down by one.
C7_CountIsLiveRefs ==
    /\ (flag > UNUSED) => (flag = refs /\ refmuts = 0)
    /\ (refs > 0) => (flag = refs)
    /\ (refs = 0 /\ refmuts = 0) => (flag = UNUSED)

\* three shared guards were taken and one has just been released
C7_Witness ==
    /\ op = "drop_Ref" /\ prev_op \in {"borrow", "try_borrow"}
    /\ refs = 2 /\ flag = 2

\* C8: once every guard has been released the flag is UNUSED and a
\* borrow_mut on the script role returns an exclusive guard.
C8_FreshBorrowMut ==
    [][(refs = 0 /\ refmuts = 0) =>
          /\ flag = UNUSED
          /\ (op' = "borrow_mut" /\ is_script(caller')) =>
                (outcome' = "RefMut" /\ flag' = WRITING /\ refmuts' = 1)]_vars

\* borrow_mut succeeded right after the last guard was released
C8_Witness ==
    /\ prev_op \in {"drop_Ref", "drop_RefMut"}
    /\ op = "borrow_mut" /\ outcome = "RefMut" /\ refmuts = 1

\* C9: is_mutably_borrowed changes neither the flag nor the live guards nor
\* the value, in every tracker state and task state, and never fails a role
\* check.
C9_QueryIsPure ==
    [][(op' = "is_mutably_borrowed") =>
          /\ flag' = flag /\ refs' = refs /\ refmuts' = refmuts
          /\ value' = value
          /\ outcome' \in {"true", "false"}]_vars

\* the query ran off the script task in a debug build with guards live
C9_Witness ==
    /\ op = "is_mutably_borrowed" /\ debug /\ ~is_script(caller)
    /\ refs = 2 /\ flag = 2

\* C10: an unsafe accessor whose role assertion passes returns its reference
\* in every tracker state, WRITING and Shared(n) included, and never reports
\* a borrow conflict.
C10_BypassAlwaysSucceeds ==
    [][/\ (op' = "borrow_for_gc_trace"
              /\ debug_assert(contains(caller', {SCRIPT, IN_GC}))) =>
            (outcome' = "&T" /\ seen' = value)
       /\ (op' = "borrow_for_layout" /\ debug_assert(is_layout(caller'))) =>
            (outcome' = "&T" /\ seen' = value)
       /\ (op' = "borrow_for_script_deallocation"
              /\ debug_assert(contains(caller', {SCRIPT}))) =>
            (outcome' = "&mut T" /\ seen' = value)
       /\ (op' \in BypassOps) => (outcome' \notin {"BorrowConflict", "None"})]_vars

\* the trace read was served while an exclusive guard was live
C10_Witness ==
    /\ op = "borrow_for_gc_trace" /\ outcome = "&T"
    /\ flag = WRITING /\ refmuts = 1

\* C11: the flag becomes WRITING only from UNUSED and only by a successful
\* borrow_mut or try_borrow_mut; while it is WRITING no exclusive borrow
\* succeeds; it leaves WRITING only by the drop of the RefMut, to UNUSED.
C11_ExclusiveOnlyThroughFree ==
    [][/\ (flag' = WRITING /\ flag # WRITING) =>
            /\ flag = UNUSED /\ refs = 0 /\ refmuts = 0
            /\ \/ (op' = "borrow_mut" /\ outcome' = "RefMut")
               \/ (op' = "try_borrow_mut" /\ outcome' = "Some")
       /\ (flag = WRITING /\ op' \in {"borrow_mut", "try_borrow_mut"}) =>
            (outcome' \notin {"RefMut", "Some"} /\ refmuts' = refmuts)
       /\ (flag = WRITING /\ flag' # WRITING) =>
            (op' = "drop_RefMut" /\ flag' = UNUSED /\ refmuts' = 0)]_vars

\* an exclusive guard taken from Free has just been released
C11_Witness ==
    /\ op = "drop_RefMut" /\ prev_op \in {"borrow_mut", "try_borrow_mut"}
    /\ flag = UNUSED /\ refmuts = 0

\* C12: trace takes a checked shared borrow: with the role assertion passing
\* it panics with a borrow conflict exactly when an exclusive guard is live,
\* and otherwise forwards the tracer to the contents.
C12_TraceIsChecked ==
    [][(op' = "trace" /\ debug_assert(is_script(caller'))) =>
          /\ (outcome' = "BorrowConflict") <=> (refmuts > 0)
          /\ (refmuts = 0) => (outcome' = "traced" /\ seen' = value)
          /\ outcome' = IF borrow_result(caller').kind = "Ref"
                        THEN "traced" ELSE borrow_result(caller').kind]_vars

\* trace panicked while an exclusive guard was live
C12_Witness ==
    /\ op = "trace" /\ outcome = "BorrowConflict"
    /\ flag = WRITING /\ refmuts = 1

CheckedOps == {"borrow", "borrow_mut", "try_borrow", "try_borrow_mut"}

\* what a checked borrow does once it reaches the RefCell, read from the
\* live guards: the outcome and the guards afterwards
Proceeds(name) ==
    IF name \in {"borrow", "try_borrow"}
    THEN IF refmuts > 0
         THEN [kind |-> IF name = "borrow" THEN "BorrowConflict" ELSE "None",
               flag |-> flag, refs |-> refs, refmuts |-> refmuts]
         ELSE [kind |-> IF name = "borrow" THEN "Ref" ELSE "Some",
               flag |-> flag + 1, refs |-> refs + 1, refmuts |-> refmuts]
    ELSE IF refs > 0 \/ refmuts > 0
         THEN [kind |-> IF name = "borrow_mut" THEN "BorrowConflict" ELSE "None",
               flag |-> flag, refs |-> refs, refmuts |-> refmuts]
         ELSE [kind |-> IF name = "borrow_mut" THEN "RefMut" ELSE "Some",
               flag |-> WRITING, refs |-> refs, refmuts |-> refmuts + 1]

C14_BypassRoleGate ==
    [][/\ (op' = "borrow_for_layout") =>
            ((outcome' = "RoleViolation") <=> (debug /\ LAYOUT \notin caller'))
       /\ (op' = "borrow_for_gc_trace") =>
            ((outcome' = "RoleViolation") <=>
                (debug /\ ~(SCRIPT \in caller' /\ IN_GC \in caller')))
       /\ (op' = "borrow_for_script_deallocation") =>
            ((outcome' = "RoleViolation") <=> (debug /\ SCRIPT \notin caller'))]_vars

\* a debug build turned down a trace read made on the script task outside a
\* collection
C14_Witness ==
    /\ op = "borrow_for_gc_trace" /\ debug /\ caller = {SCRIPT}
    /\ outcome = "RoleViolation"

\* C15: the cell holds the value last stored by new or through an exclusive
\* guard; every successful shared borrow and every read through a shared
\* guard yields it; taking, reading or dropping shared guards never changes
\* it, and it cannot change while a shared guard is live.
C15_ValueVisibility ==
    [][/\ value' = written'
       /\ (op' \in {"borrow", "try_borrow"} /\ outcome' \in {"Ref", "Some"}) =>
            (seen' = written /\ value' = value)
       /\ (op' = "read_Ref") => (seen' = written /\ value' = value)
       /\ (op' = "drop_Ref") => (value' = value)
       /\ (refs > 0) => (value' = value /\ written' = written)
       /\ (value' # value) => (op' = "write_RefMut" /\ refmuts = 1)]_vars

\* a shared borrow taken right after an exclusive guard was released yields
\* the stored value
C15_Witness ==
    /\ op = "borrow" /\ outcome = "Ref" /\ prev_op = "drop_RefMut"
    /\ seen = written /\ refs = 1

\* C16: a checked borrow that returns None or panics with a borrow conflict
\* leaves the flag, the live guards and the value as they were, and it ends
\* in the step that makes it: in every conflicting state the failing call is
\* enabled.
C16_FailedBorrowNoEffect ==
    /\ [][(op' \in CheckedOps /\ outcome' \in {"None", "BorrowConflict"}) =>
             /\ flag' = flag /\ refs' = refs /\ refmuts' = refmuts
             /\ value' = value /\ written' = written]_vars
    /\ []((refs > 0 \/ refmuts > 0) =>
             /\ ENABLED (borrow_mut /\ outcome' = "BorrowConflict")
             /\ ENABLED (try_borrow_mut /\ outcome' = "None"))
    /\ []((refmuts > 0) =>
             /\ ENABLED (borrow /\ outcome' = "BorrowConflict")
             /\ ENABLED (try_borrow /\ outcome' = "None"))

\* try_borrow_mut returned None while two shared guards were live
C16_Witness ==
    /\ op = "try_borrow_mut" /\ outcome = "None"
    /\ flag = 2 /\ refs = 2 /\ refmuts = 0 /\ value = written

\* C17: a trace that succeeds leaves the flag and the live guards as they
\* were: the Ref it takes is dropped before it returns.
C17_TraceBalanced ==
    [][(op' = "trace" /\ outcome' = "traced") =>
          /\ flag >= UNUSED /\ refmuts = 0
          /\ flag' = flag /\ refs' = refs /\ refmuts' = refmuts
          /\ value' = value]_vars

\* trace succeeded while two shared guards were live
C17_Witness ==
    /\ op = "trace" /\ outcome = "traced"
    /\ flag = 2 /\ refs = 2

====
